---- MODULE Spec2Model ----
(***************************************************************************)
(* A model of bam2fastq (src/bam2fastq.cpp): one pass of parse_bamfile     *)
(* over a BAM stream, its output initialisation, the mate buffer, the      *)
(* end-of-stream flush and the summary written to standard error.          *)
(*                                                                         *)
(* Strings are sequences of one-character strings, so that find, replace,  *)
(* erase and append are computed on characters as the code computes them.  *)
(* A flag word is the set of the BAM_F* bits that are set in it.           *)
(***************************************************************************)
EXTENDS Integers, Sequences, FiniteSets, TLC

VARIABLES
    \* the option globals (lines 37-44) and main's output_template (381)
    save_aligned, save_unaligned, save_filtered, overwrite_files,
    stdout_pairs, stdout_all, print_msgs, strict, output_template,
    \* the environment: the number of records the decoder delivers before it
    \* reports the end of the file or a read error, the number of different
    \* reads and the flag bits that occur in them, the files that exist
    bam_len, bam_names, bam_flags, fs,
    \* parse_bamfile's locals and position
    pc, sam, readbuf, read, rc, nread, lane, all_seen, exported, output,
    unPaired,
    \* what the run has done: writes per slot, streams opened and deleted,
    \* standard error, the process's exit status (-1 while running)
    writes, opened, deleted, cerr, exit_status,
    \* harness for calling one function on its own
    unit_pc, unit_arg, unit_ret

optvars == <<save_aligned, save_unaligned, save_filtered, overwrite_files,
             stdout_pairs, stdout_all, print_msgs, strict, output_template>>
envvars == <<bam_len, bam_names, bam_flags, fs>>
runvars == <<pc, sam, readbuf, read, rc, nread, lane, all_seen, exported, output,
             unPaired, writes, opened, deleted, cerr, exit_status>>
unitvars == <<unit_pc, unit_arg, unit_ret>>
vars == <<optvars, envvars, runvars, unitvars>>

(***************************************************************************)
(* Bounds                                                                  *)
(***************************************************************************)
\* records in the stream, full option space of the record loop
MaxRecords == 2
\* records in the stream when only strict and the output mode vary and the
\* records differ in their pairing bits only
MaxPairRecords == 3
\* records in the stream when template, overwrite and directory vary
MaxInitRecords == 1
\* how many entries of ReadTable the decoder draws from
NumNames == 2
\* the same, when only strict and the output mode vary
NumPairNames == 3
\* longest read name given to the pairing-name computation on its own
MaxNameLen == 3
\* longest read given to the sequence reconstruction on its own
MaxSeqLen == 2

(***************************************************************************)
(* Characters and strings                                                  *)
(***************************************************************************)
Digits == {"0", "1", "2", "3", "4", "5", "6", "7", "8", "9"}

isdigit(c) == c \in Digits

\* the characters used in names, in increasing order of their char value
CharOrder == <<"/", "0", "1", "2", "3", "4", "5", "6", "7", "8", "9", ":",
               "A", "B", "a", "r">>

Code(c) == CHOOSE i \in 1..Len(CharOrder) : CharOrder[i] = c

\* std::string operator< : lexicographic on character values
RECURSIVE StrLess(_, _)
StrLess(s, t) ==
    IF t = <<>> THEN FALSE
    ELSE IF s = <<>> THEN TRUE
    ELSE IF s[1] = t[1] THEN StrLess(Tail(s), Tail(t))
    ELSE Code(s[1]) < Code(t[1])

npos == -1

\* std::string::find(c, start): 0-based position of the first c at or after
\* start, npos when there is none
Find(s, c, start) ==
    LET hits == {i \in start..(Len(s) - 1) : s[i + 1] = c}
    IN  IF hits = {} THEN npos
        ELSE CHOOSE i \in hits : \A j \in hits : i <= j

\* std::string::replace(pos, 1, by)
Replace1(s, pos, by) == SubSeq(s, 1, pos) \o by \o SubSeq(s, pos + 2, Len(s))

DigitVal(c) == Code(c) - Code("0")

\* istringstream >> int on text without blanks or sign: the leading digits,
\* and 0 when the text does not start with a digit
RECURSIVE ParseDigits(_, _)
ParseDigits(s, acc) ==
    IF s = <<>> \/ ~isdigit(s[1]) THEN acc
    ELSE ParseDigits(Tail(s), 10 * acc + DigitVal(s[1]))

ExtractInt(s) == ParseDigits(s, 0)

\* ostringstream << int for a non-negative int
RECURSIVE IntToStr(_)
IntToStr(n) ==
    IF n < 10 THEN <<CharOrder[n + Code("0")]>>
    ELSE IntToStr(n \div 10) \o <<CharOrder[(n % 10) + Code("0")]>>

(***************************************************************************)
(* The functions of one alignment record (lines 106-171)                   *)
(***************************************************************************)
\* string(bam1_qname(b))
get_pair_name(b) == b.qname

\* 0 for read 1 and 1 for read 2
get_read_idx(b) == IF "BAM_FREAD1" \in b.flag THEN 0 ELSE 1

suffix == << <<"/", "1">>, <<"/", "2">> >>

get_read_name(b) ==
    IF "BAM_FPAIRED" \in b.flag
    THEN get_pair_name(b) \o suffix[get_read_idx(b) + 1]
    ELSE get_pair_name(b)

get_lane_id(b) ==
    LET name == get_pair_name(b)
        colon == Find(name, ":", 0)
        start == colon + 1
        stop == Find(name, ":", start)
    IN  IF colon = npos THEN 0
        ELSE IF stop = npos \/ stop = start THEN 0
        ELSE ExtractInt(SubSeq(name, start + 1, stop))

\* the map filled by main (lines 370-380); operator[] on a code that was
\* never set yields the character 0
bases(i) ==
    CASE i = 1 -> "A" [] i = 2 -> "C" [] i = 4 -> "G" [] i = 8 -> "T"
      [] i = 15 -> "N"
      [] i = 17 -> "T" [] i = 18 -> "G" [] i = 20 -> "C" [] i = 24 -> "A"
      [] i = 31 -> "N"
      [] OTHER -> "NUL"

Reverse(s) == [i \in 1..Len(s) |-> s[Len(s) + 1 - i]]

\* get_sequence without the reversal of lines 148-149
get_sequence_NoReverse(b) ==
    LET offset == IF "BAM_FREVERSE" \in b.flag THEN 16 ELSE 0
    IN  [i \in 1..Len(b.seq) |-> bases(b.seq[i] + offset)]

get_sequence(b) ==
    LET offset == IF "BAM_FREVERSE" \in b.flag THEN 16 ELSE 0
        sequence == [i \in 1..Len(b.seq) |-> bases(b.seq[i] + offset)]
    IN  IF offset # 0 THEN Reverse(sequence) ELSE sequence

\* a quality character is written as its character value
get_qualities(b) ==
    LET quality == [i \in 1..Len(b.qual) |-> (b.qual[i] + 33) % 256]
    IN  IF "BAM_FREVERSE" \in b.flag THEN Reverse(quality) ELSE quality

\* mangle erasing the last character only
mangle_OneChar(name) ==
    IF Len(name) < 3 THEN name
    ELSE IF isdigit(name[Len(name)]) /\ ~isdigit(name[Len(name) - 1])
         THEN SubSeq(name, 1, Len(name) - 1)
         ELSE name

mangle(name) ==
    IF Len(name) < 3 THEN name
    ELSE IF isdigit(name[Len(name)]) /\ ~isdigit(name[Len(name) - 1])
         THEN SubSeq(name, 1, Len(name) - 2)
         ELSE name

\* lines 317-319: the key under which a paired record is looked up
pairName(qname, strict_) == IF strict_ # 0 THEN qname ELSE mangle(qname)

\* lines 298-302: the four lines "@name", sequence, "+", qualities
FormatEntry(b) ==
    [name |-> get_read_name(b), seq |-> get_sequence(b),
     qual |-> get_qualities(b)]

(***************************************************************************)
(* The decoder's records                                                   *)
(***************************************************************************)
\* name, packed bases, qualities and strand of the reads the decoder can
\* deliver; a file holds the first bam_names of them
ReadTable == <<
    [qname |-> <<":", "4", ":", "1">>, seq |-> <<1, 2>>, qual |-> <<0, 40>>,
     strand |-> {}],
    [qname |-> <<":", "4", "A", "2">>, seq |-> <<8, 15>>, qual |-> <<7, 2>>,
     strand |-> {"BAM_FREVERSE"}],
    [qname |-> <<"r", "1", "2">>, seq |-> <<2, 2>>, qual |-> <<1, 1>>,
     strand |-> {}],
    [qname |-> <<":", "4", ":", "2">>, seq |-> <<4>>, qual |-> <<30>>,
     strand |-> {"BAM_FREVERSE"}],
    [qname |-> <<"r", "/", "1">>, seq |-> <<1>>, qual |-> <<93>>,
     strand |-> {}] >>

\* the flag bits the record loop looks at
StreamFlags == {"BAM_FPAIRED", "BAM_FREAD1", "BAM_FUNMAP", "BAM_FQCFAIL"}

PairingFlags == {"BAM_FPAIRED", "BAM_FREAD1"}

\* what bam_read1 can put into the buffer
StreamReads ==
    {[qname |-> ReadTable[i].qname, flag |-> ReadTable[i].strand \cup f,
      seq |-> ReadTable[i].seq, qual |-> ReadTable[i].qual] :
        i \in 1..bam_names, f \in SUBSET bam_flags}

\* bam_init1: a zeroed record; its name pointer is null
ZeroRead == [qname |-> <<>>, flag |-> {}, seq |-> <<>>, qual |-> <<>>]

(***************************************************************************)
(* Output initialisation (lines 173-249)                                   *)
(* Each initialiser yields the vector of streams, the files it opened for  *)
(* writing and the lines it wrote to standard error.                       *)
(***************************************************************************)
cout == <<"std::cout">>

UnpairedFile == <<"unpaired_reads.fastq">>

Msg(kind, n, paths) == [kind |-> kind, n |-> n, paths |-> paths]

initialize_all_stdout == [files |-> <<cout>>, created |-> {}, msgs |-> <<>>]

\* initialize_paired_stdout with standard output as the third stream too
initialize_paired_stdout_AllCout ==
    [files |-> <<cout, cout, cout>>, created |-> {}, msgs |-> <<>>]

initialize_paired_stdout ==
    [files |-> <<cout, cout, UnpairedFile>>, created |-> {UnpairedFile},
     msgs |-> <<>>]

\* initialize_output testing the third file where it should test the second
initialize_output_TestsM(out_template, lane_, overwrite, print, fs_) ==
    LET laneMarker == Find(out_template, "%", 0)
        outname == IF laneMarker # npos
                   THEN Replace1(out_template, laneMarker, IntToStr(lane_))
                   ELSE out_template
        readMarker == Find(outname, "#", 0)
        file1 == Replace1(outname, readMarker, <<"_", "1">>)
        file2 == Replace1(outname, readMarker, <<"_", "2">>)
        file3 == Replace1(outname, readMarker, <<"_", "M">>)
        info == IF print # 0
                THEN <<Msg("paired data", lane_, <<file1, file2, file3>>)>>
                ELSE <<>>
    IN  IF laneMarker # npos /\ lane_ = 0
        THEN [files |-> <<>>, created |-> {},
              msgs |-> <<Msg("lane could not be determined", 0, <<>>)>>]
        ELSE IF readMarker = npos
        THEN [files |-> <<>>, created |-> {},
              msgs |-> <<Msg("no # in output filename", 0, <<>>)>>]
        ELSE IF overwrite = 0 /\ file1 \in fs_
        THEN [files |-> <<>>, created |-> {},
              msgs |-> info \o <<Msg("already exists", 0, <<file1>>)>>]
        ELSE IF overwrite = 0 /\ file3 \in fs_
        THEN [files |-> <<>>, created |-> {},
              msgs |-> info \o <<Msg("already exists", 0, <<file3>>)>>]
        ELSE [files |-> <<file1, file2, file3>>,
              created |-> {file1, file2, file3}, msgs |-> info]

initialize_output(out_template, lane_, overwrite, print, fs_) ==
    LET laneMarker == Find(out_template, "%", 0)
        outname == IF laneMarker # npos
                   THEN Replace1(out_template, laneMarker, IntToStr(lane_))
                   ELSE out_template
        readMarker == Find(outname, "#", 0)
        file1 == Replace1(outname, readMarker, <<"_", "1">>)
        file2 == Replace1(outname, readMarker, <<"_", "2">>)
        file3 == Replace1(outname, readMarker, <<"_", "M">>)
        info == IF print # 0
                THEN <<Msg("paired data", lane_, <<file1, file2, file3>>)>>
                ELSE <<>>
    IN  IF laneMarker # npos /\ lane_ = 0
        THEN [files |-> <<>>, created |-> {},
              msgs |-> <<Msg("lane could not be determined", 0, <<>>)>>]
        ELSE IF readMarker = npos
        THEN [files |-> <<>>, created |-> {},
              msgs |-> <<Msg("no # in output filename", 0, <<>>)>>]
        ELSE IF overwrite = 0 /\ file1 \in fs_
        THEN [files |-> <<>>, created |-> {},
              msgs |-> info \o <<Msg("already exists", 0, <<file1>>)>>]
        ELSE IF overwrite = 0 /\ file2 \in fs_
        THEN [files |-> <<>>, created |-> {},
              msgs |-> info \o <<Msg("already exists", 0, <<file2>>)>>]
        ELSE [files |-> <<file1, file2, file3>>,
              created |-> {file1, file2, file3}, msgs |-> info]

\* lines 273-280
InitOutput(lane_) ==
    IF stdout_pairs # 0 THEN initialize_paired_stdout
    ELSE IF stdout_all # 0 THEN initialize_all_stdout
    ELSE initialize_output(output_template, lane_, overwrite_files,
                           print_msgs, fs)

(***************************************************************************)
(* The record loop (lines 288-342)                                         *)
(***************************************************************************)
EmptyMap == [k \in {} |-> <<>>]

\* the text of an entry, with the record it was formatted from: its
\* position in the stream, its raw name and its pairing bits
MkEntry(b, ord) ==
    [text |-> FormatEntry(b),
     src |-> [ord |-> ord, qname |-> b.qname,
              paired |-> "BAM_FPAIRED" \in b.flag,
              read1 |-> "BAM_FREAD1" \in b.flag]]

Write(slot, e) == [slot |-> slot, e |-> e]

\* Skipped without the QC-fail test of lines 294-295
Skipped_NoQC(b) ==
    IF save_aligned = 0 /\ "BAM_FUNMAP" \notin b.flag THEN TRUE
    ELSE IF save_unaligned = 0 /\ "BAM_FUNMAP" \in b.flag THEN TRUE
    ELSE FALSE

\* lines 290-295: the three continue statements
Skipped(b) ==
    IF save_aligned = 0 /\ "BAM_FUNMAP" \notin b.flag THEN TRUE
    ELSE IF save_unaligned = 0 /\ "BAM_FUNMAP" \in b.flag THEN TRUE
    ELSE IF save_filtered = 0 /\ "BAM_FQCFAIL" \in b.flag THEN TRUE
    ELSE FALSE

MapPut(m, k, v) == [x \in DOMAIN m \cup {k} |-> IF x = k THEN v ELSE m[x]]

MapErase(m, k) == [x \in DOMAIN m \ {k} |-> m[x]]

\* Route, but an unpaired record goes to mate slot 1
Route_UnpairedToMate(b, e) ==
    IF Len(output) = 1
    THEN [writes |-> Append(writes, Write(0, e)), unPaired |-> unPaired]
    ELSE IF "BAM_FPAIRED" \notin b.flag
    THEN [writes |-> Append(writes, Write(1, e)), unPaired |-> unPaired]
    ELSE LET key == pairName(get_pair_name(b), strict)
         IN  IF key \notin DOMAIN unPaired
             THEN [writes |-> writes, unPaired |-> MapPut(unPaired, key, e)]
             ELSE IF get_read_idx(b) = 0
             THEN [writes |-> writes \o <<Write(0, e),
                                          Write(1, unPaired[key])>>,
                   unPaired |-> MapErase(unPaired, key)]
             ELSE [writes |-> writes \o <<Write(0, unPaired[key]),
                                          Write(1, e)>>,
                   unPaired |-> MapErase(unPaired, key)]

\* Route without the single-stream case of lines 309-310
Route_AlwaysPair(b, e) ==
    IF "BAM_FPAIRED" \notin b.flag
    THEN [writes |-> Append(writes, Write(IF Len(output) = 1 THEN 0 ELSE 2,
                                          e)),
          unPaired |-> unPaired]
    ELSE LET key == pairName(get_pair_name(b), strict)
         IN  IF key \notin DOMAIN unPaired
             THEN [writes |-> writes, unPaired |-> MapPut(unPaired, key, e)]
             ELSE IF get_read_idx(b) = 0
             THEN [writes |-> writes \o <<Write(0, e),
                                          Write(1, unPaired[key])>>,
                   unPaired |-> MapErase(unPaired, key)]
             ELSE [writes |-> writes \o <<Write(0, unPaired[key]),
                                          Write(1, e)>>,
                   unPaired |-> MapErase(unPaired, key)]

\* Route, but a match writes only the arriving record
Route_DropBuffered(b, e) ==
    IF Len(output) = 1
    THEN [writes |-> Append(writes, Write(0, e)), unPaired |-> unPaired]
    ELSE IF "BAM_FPAIRED" \notin b.flag
    THEN [writes |-> Append(writes, Write(2, e)), unPaired |-> unPaired]
    ELSE LET key == pairName(get_pair_name(b), strict)
         IN  IF key \notin DOMAIN unPaired
             THEN [writes |-> writes, unPaired |-> MapPut(unPaired, key, e)]
             ELSE [writes |-> Append(writes,
                                     Write(get_read_idx(b), e)),
                   unPaired |-> MapErase(unPaired, key)]

\* Route, but the arriving record always goes to slot 0
Route_ArrivalOrder(b, e) ==
    IF Len(output) = 1
    THEN [writes |-> Append(writes, Write(0, e)), unPaired |-> unPaired]
    ELSE IF "BAM_FPAIRED" \notin b.flag
    THEN [writes |-> Append(writes, Write(2, e)), unPaired |-> unPaired]
    ELSE LET key == pairName(get_pair_name(b), strict)
         IN  IF key \notin DOMAIN unPaired
             THEN [writes |-> writes, unPaired |-> MapPut(unPaired, key, e)]
             ELSE [writes |-> writes \o <<Write(0, e),
                                          Write(1, unPaired[key])>>,
                   unPaired |-> MapErase(unPaired, key)]

\* Route, but a record whose key is in the map replaces the buffered entry
Route_Overwrite(b, e) ==
    IF Len(output) = 1
    THEN [writes |-> Append(writes, Write(0, e)), unPaired |-> unPaired]
    ELSE IF "BAM_FPAIRED" \notin b.flag
    THEN [writes |-> Append(writes, Write(2, e)), unPaired |-> unPaired]
    ELSE LET key == pairName(get_pair_name(b), strict)
         IN  [writes |-> writes, unPaired |-> MapPut(unPaired, key, e)]

\* Route, but a match is ordered by the role of the buffered record
Route_ByBufferedRole(b, e) ==
    IF Len(output) = 1
    THEN [writes |-> Append(writes, Write(0, e)), unPaired |-> unPaired]
    ELSE IF "BAM_FPAIRED" \notin b.flag
    THEN [writes |-> Append(writes, Write(2, e)), unPaired |-> unPaired]
    ELSE LET key == pairName(get_pair_name(b), strict)
         IN  IF key \notin DOMAIN unPaired
             THEN [writes |-> writes, unPaired |-> MapPut(unPaired, key, e)]
             ELSE IF ~unPaired[key].src.read1
             THEN [writes |-> writes \o <<Write(0, e),
                                          Write(1, unPaired[key])>>,
                   unPaired |-> MapErase(unPaired, key)]
             ELSE [writes |-> writes \o <<Write(0, unPaired[key]),
                                          Write(1, e)>>,
                   unPaired |-> MapErase(unPaired, key)]

\* Route, but a match leaves the buffered entry in the map
Route_KeepBuffered(b, e) ==
    IF Len(output) = 1
    THEN [writes |-> Append(writes, Write(0, e)), unPaired |-> unPaired]
    ELSE IF "BAM_FPAIRED" \notin b.flag
    THEN [writes |-> Append(writes, Write(2, e)), unPaired |-> unPaired]
    ELSE LET key == pairName(get_pair_name(b), strict)
         IN  IF key \notin DOMAIN unPaired
             THEN [writes |-> writes, unPaired |-> MapPut(unPaired, key, e)]
             ELSE IF get_read_idx(b) = 0
             THEN [writes |-> writes \o <<Write(0, e),
                                          Write(1, unPaired[key])>>,
                   unPaired |-> unPaired]
             ELSE [writes |-> writes \o <<Write(0, unPaired[key]),
                                          Write(1, e)>>,
                   unPaired |-> unPaired]

\* lines 309-340: what one exported record does to the streams and the map
Route(b, e) ==
    IF Len(output) = 1
    THEN [writes |-> Append(writes, Write(0, e)), unPaired |-> unPaired]
    ELSE IF "BAM_FPAIRED" \notin b.flag
    THEN [writes |-> Append(writes, Write(2, e)), unPaired |-> unPaired]
    ELSE LET key == pairName(get_pair_name(b), strict)
         IN  IF key \notin DOMAIN unPaired
             THEN [writes |-> writes, unPaired |-> MapPut(unPaired, key, e)]
             ELSE IF get_read_idx(b) = 0
             THEN [writes |-> writes \o <<Write(0, e),
                                          Write(1, unPaired[key])>>,
                   unPaired |-> MapErase(unPaired, key)]
             ELSE [writes |-> writes \o <<Write(0, unPaired[key]),
                                          Write(1, e)>>,
                   unPaired |-> MapErase(unPaired, key)]

\* std::map iterates in increasing key order
RECURSIVE FlushOrder(_)
FlushOrder(keys) ==
    IF keys = {} THEN <<>>
    ELSE LET k == CHOOSE x \in keys : \A y \in keys \ {x} : StrLess(x, y)
         IN  <<k>> \o FlushOrder(keys \ {k})

\* FlushWrites into mate slot 0
FlushWrites_ToMate ==
    LET order == FlushOrder(DOMAIN unPaired)
    IN  [i \in 1..Len(order) |-> Write(0, unPaired[order[i]])]

\* FlushWrites starting at the second element of the map
FlushWrites_SkipFirst ==
    LET order == FlushOrder(DOMAIN unPaired)
    IN  [i \in 1..(Len(order) - 1) |-> Write(2, unPaired[order[i + 1]])]

\* lines 351-355
FlushWrites ==
    LET order == FlushOrder(DOMAIN unPaired)
    IN  [i \in 1..Len(order) |-> Write(2, unPaired[order[i]])]

\* the test of line 359 passing every stream
NotCout_Any(s) == TRUE

\* line 359: output[i] != &std::cout
NotCout(s) == s # cout

\* lines 357-361, which come after the flush of lines 351-355: every stream
\* but standard output is deleted, once n writes have been made
DeleteStreams(out, n) ==
    LET owned == SelectSeq(out, NotCout)
    IN  [i \in 1..Len(owned) |-> [stream |-> owned[i], after |-> n]]

\* what bam_read1 returns without a record (comment of lines 344-347)
EndOfFile == -1

ReadError == -2

\* line 342: bam_read1(...) > 0
ReadOk(code) == code > 0

(***************************************************************************)
(* Actions                                                                 *)
(***************************************************************************)
\* lines 261-265 and main's return: samopen yields NULL
samopen_fail ==
    /\ pc = "start"
    /\ cerr' = Append(cerr, Msg("Could not open", 0, <<>>))
    /\ pc' = "done"
    /\ exit_status' = 0
    /\ UNCHANGED <<optvars, envvars, unitvars, sam, readbuf, read, rc, nread,
                   lane, all_seen, exported, output, unPaired, writes, opened,
                   deleted>>

\* lines 271-283 on the record in the buffer
BeginOn(b) ==
    LET ln == get_lane_id(b)
        o == InitOutput(ln)
    IN  /\ lane' = ln
        /\ output' = o.files
        /\ opened' = o.created
        /\ fs' = fs \cup o.created
        /\ cerr' = cerr \o o.msgs
        /\ IF o.files = <<>>
           THEN pc' = "done" /\ exit_status' = 0
           ELSE pc' = "loop" /\ exit_status' = exit_status

\* lines 261-283: samopen succeeds, the first record is read without looking
\* at bam_read1's result, the lane is taken from it and the output is set
\* up.  When no record can be read the buffer still has a null name and
\* building a string from it is undefined: the process aborts, or goes on
\* with an empty name.
Begin ==
    /\ pc = "start"
    /\ sam' = "open"
    /\ readbuf' = "live"
    /\ \/ /\ bam_len > 0
          /\ \E b \in StreamReads :
                /\ read' = b
                /\ rc' = 1
                /\ nread' = 1
                /\ BeginOn(b)
       \/ /\ bam_len = 0
          /\ rc' \in {EndOfFile, ReadError}
          /\ read' = ZeroRead
          /\ nread' = 0
          /\ \/ BeginOn(ZeroRead)
             \/ /\ pc' = "crashed"
                /\ exit_status' = 134
                /\ UNCHANGED <<lane, output, opened, fs, cerr>>
    /\ UNCHANGED <<optvars, unitvars, bam_len, bam_names, bam_flags, all_seen,
                   exported, unPaired, writes, deleted>>

\* lines 288-342: the loop body on the record in the buffer, then the
\* bam_read1 of the loop condition: the next record or, after the last
\* record that can be read, the end of the file or a read error
ProcessRecord ==
    /\ pc = "loop"
    /\ all_seen' = all_seen + 1
    /\ IF Skipped(read)
       THEN UNCHANGED <<exported, writes, unPaired>>
       ELSE LET r == Route(read, MkEntry(read, all_seen + 1))
            IN  /\ exported' = exported + 1
                /\ writes' = r.writes
                /\ unPaired' = r.unPaired
    /\ \/ /\ nread < bam_len
          /\ \E b \in StreamReads : read' = b
          /\ rc' = 1
          /\ nread' = nread + 1
       \/ /\ nread >= bam_len
          /\ rc' \in {EndOfFile, ReadError}
          /\ UNCHANGED <<read, nread>>
    /\ pc' = IF ReadOk(rc') THEN "loop" ELSE "eos"
    /\ UNCHANGED <<optvars, envvars, unitvars, sam, readbuf, lane, output,
                   opened, deleted, cerr, exit_status>>

\* lines 348-366 and main's return; bam_destroy1 leaves no record behind
Finish ==
    /\ pc = "eos"
    /\ readbuf' = "freed"
    /\ sam' = "closed"
    /\ writes' = writes \o FlushWrites
    /\ deleted' = deleted \o DeleteStreams(output, Len(writes'))
    /\ cerr' = IF print_msgs # 0
               THEN cerr \o <<Msg("sequences in the BAM file", all_seen, <<>>),
                              Msg("sequences exported", exported, <<>>)>>
               ELSE cerr
    /\ pc' = "done"
    /\ exit_status' = 0
    /\ read' = ZeroRead
    /\ UNCHANGED <<optvars, envvars, unitvars, rc, nread, lane, all_seen,
                   exported, output, unPaired, opened>>

\* lines 317-319 on one name, outside a run
PairNameCall ==
    /\ unit_pc = "call"
    /\ unit_ret' = pairName(unit_arg.qname, unit_arg.strict)
    /\ unit_pc' = "ret"
    /\ UNCHANGED <<optvars, envvars, runvars, unit_arg>>

\* lines 299 and 301 on one record, outside a run
ReconstructCall ==
    /\ unit_pc = "reconstruct"
    /\ unit_ret' = [seq |-> get_sequence(unit_arg),
                    qual |-> get_qualities(unit_arg)]
    /\ unit_pc' = "reconstructed"
    /\ UNCHANGED <<optvars, envvars, runvars, unit_arg>>

(***************************************************************************)
(* Initial states and specifications                                       *)
(***************************************************************************)
\* line 381
DefaultTemplate == <<"s", "_", "%", "#", "_", "s", "e", "q", "u", "e", "n",
                     "c", "e", ".", "t", "x", "t">>

Templates == {DefaultTemplate, <<"%", "#">>, <<"#">>, <<"%">>, <<"a">>}

\* files that may be there before the run
PreFiles == {<<"_", "1">>, <<"_", "2">>, <<"_", "M">>, <<"4", "_", "2">>}

Bit == {0, 1}

RunStart ==
    /\ pc = "start"
    /\ sam = "null"
    /\ readbuf = "none"
    /\ read = ZeroRead
    /\ rc = 0
    /\ nread = 0
    /\ lane = 0
    /\ all_seen = 0
    /\ exported = 0
    /\ output = <<>>
    /\ unPaired = EmptyMap
    /\ writes = <<>>
    /\ opened = {}
    /\ deleted = <<>>
    /\ cerr = <<>>
    /\ exit_status = -1

UnitOff ==
    /\ unit_pc = "off"
    /\ unit_arg = [qname |-> <<>>, strict |-> 0]
    /\ unit_ret = <<>>

\* every inclusion policy, pairing mode, output mode and message mode; the
\* default template, no --force, an empty directory
Init ==
    /\ save_aligned \in Bit
    /\ save_unaligned \in Bit
    /\ save_filtered \in Bit
    /\ strict \in Bit
    /\ stdout_pairs \in Bit
    /\ stdout_all \in Bit
    /\ print_msgs \in Bit
    /\ overwrite_files = 0
    /\ output_template = DefaultTemplate
    /\ fs = {}
    /\ bam_flags = StreamFlags
    /\ bam_names = NumNames
    /\ bam_len \in 0..MaxRecords
    /\ RunStart
    /\ UnitOff

\* the default policy (lines 37-43), both pairing modes, paired output to
\* files or to standard output, longer streams
InitPairs ==
    /\ save_aligned = 1
    /\ save_unaligned = 1
    /\ save_filtered = 1
    /\ strict \in Bit
    /\ stdout_pairs \in Bit
    /\ stdout_all = 0
    /\ print_msgs = 1
    /\ overwrite_files = 0
    /\ output_template = DefaultTemplate
    /\ fs = {}
    /\ bam_flags = PairingFlags
    /\ bam_names = NumPairNames
    /\ bam_len \in 0..MaxPairRecords
    /\ RunStart
    /\ UnitOff

\* every template, --force or not, every directory content; short streams
InitOutputs ==
    /\ save_aligned = 1
    /\ save_unaligned = 1
    /\ save_filtered = 1
    /\ strict = 0
    /\ stdout_pairs \in Bit
    /\ stdout_all \in Bit
    /\ print_msgs \in Bit
    /\ overwrite_files \in Bit
    /\ output_template \in Templates
    /\ fs \in SUBSET PreFiles
    /\ bam_flags = StreamFlags
    /\ bam_names = NumNames
    /\ bam_len \in 0..MaxInitRecords
    /\ RunStart
    /\ UnitOff

NameChars == {"a", "/", "1", "2"}

NamesUpTo(n) == UNION {[1..k -> NameChars] : k \in 0..n}

InitPairName ==
    /\ save_aligned = 1
    /\ save_unaligned = 1
    /\ save_filtered = 1
    /\ strict = 0
    /\ stdout_pairs = 0
    /\ stdout_all = 0
    /\ print_msgs = 1
    /\ overwrite_files = 0
    /\ output_template = DefaultTemplate
    /\ fs = {}
    /\ bam_flags = StreamFlags
    /\ bam_names = NumNames
    /\ bam_len = 0
    /\ RunStart
    /\ unit_pc = "call"
    /\ unit_arg \in [qname : NamesUpTo(MaxNameLen), strict : Bit]
    /\ unit_ret = <<>>

\* the 4-bit codes main gives a letter to (lines 370-374)
BaseCodes == {1, 2, 4, 8, 15}

\* quality bytes: the lowest, a usual one, the largest that stays below 256
\* after the shift, the byte for "absent"
QualBytes == {0, 40, 222, 255}

ReadsUpTo(n) ==
    UNION {[qname : {<<"r">>}, flag : {{}, {"BAM_FREVERSE"}},
            seq : [1..k -> BaseCodes], qual : [1..k -> QualBytes]] :
           k \in 0..n}

InitReconstruct ==
    /\ save_aligned = 1
    /\ save_unaligned = 1
    /\ save_filtered = 1
    /\ strict = 0
    /\ stdout_pairs = 0
    /\ stdout_all = 0
    /\ print_msgs = 1
    /\ overwrite_files = 0
    /\ output_template = DefaultTemplate
    /\ fs = {}
    /\ bam_flags = StreamFlags
    /\ bam_names = NumNames
    /\ bam_len = 0
    /\ RunStart
    /\ unit_pc = "reconstruct"
    /\ unit_arg \in ReadsUpTo(MaxSeqLen)
    /\ unit_ret = <<>>

Next == samopen_fail \/ Begin \/ ProcessRecord \/ Finish

Spec == Init /\ [][Next]_vars

SpecPairs == InitPairs /\ [][Next]_vars

SpecOutputs == InitOutputs /\ [][Next]_vars

\* the process keeps running until parse_bamfile returns
SpecPairsLive == InitPairs /\ [][Next]_vars /\ WF_vars(Next)

SpecPairName == InitPairName /\ [][PairNameCall]_vars

SpecReconstruct == InitReconstruct /\ [][ReconstructCall]_vars

(***************************************************************************)
(* Vocabulary of the properties                                            *)
(***************************************************************************)
ThreeSlots == Len(output) = 3

OneSlot == Len(output) = 1

\* the entries written through slot i, in the order they were written
SlotEntries(i) ==
    LET InSlot(w) == w.slot = i
        ws == SelectSeq(writes, InSlot)
    IN  [k \in 1..Len(ws) |-> ws[k].e]

Buffered == {unPaired[k] : k \in DOMAIN unPaired}

Written == {writes[i].e : i \in DOMAIN writes}

\* every entry formatted so far
AllEntries == Written \cup Buffered

\* the pairing key of the record an entry was formatted from
Key(e) == pairName(e.src.qname, strict)

\* the indices of the writes of entry e
WritesOf(e) == {i \in DOMAIN writes : writes[i].e = e}

WrittenOnceTo(e, slot) ==
    /\ Cardinality(WritesOf(e)) = 1
    /\ \A i \in WritesOf(e) : writes[i].slot = slot

C2_Original ==
    ThreeSlots =>
        \A e1, e2 \in AllEntries :
            ( /\ e1.src.paired /\ e2.src.paired
              /\ Key(e1) = Key(e2)
              /\ e1.src.read1 /\ ~e2.src.read1 )
            => /\ e1 \in Written /\ \A i \in WritesOf(e1) : writes[i].slot = 0
               /\ e2 \in Written /\ \A i \in WritesOf(e2) : writes[i].slot = 1

\* the exported paired records with the pairing key of e
SameKey(e) == {x \in AllEntries : x.src.paired /\ Key(x) = Key(e)}

(***************************************************************************)
(* C2 as amended: when the exported paired records with some pairing key   *)
(* are exactly one read-1 record and one read-2 record, the read-1 entry   *)
(* has been written once, to slot 0, and the read-2 entry once, to slot 1, *)
(* whichever of the two arrived first.                                     *)
(***************************************************************************)
C2_ExactPairRouted ==
    ThreeSlots =>
        \A e1, e2 \in AllEntries :
            ( /\ e1.src.paired /\ e2.src.paired
              /\ Key(e1) = Key(e2)
              /\ e1.src.read1 /\ ~e2.src.read1
              /\ SameKey(e1) = {e1, e2} )
            => WrittenOnceTo(e1, 0) /\ WrittenOnceTo(e2, 1)

\* a pair whose read-2 record arrived first has been written
C2_Witness ==
    /\ ThreeSlots
    /\ \E e1, e2 \in Written :
          /\ e1.src.paired /\ e2.src.paired
          /\ e1.src.read1 /\ ~e2.src.read1
          /\ SameKey(e1) = {e1, e2}
          /\ e2.src.ord < e1.src.ord
          /\ WrittenOnceTo(e1, 0)

\* the suffix of the writes made by the step
NewWrites == SubSeq(writes', Len(writes) + 1, Len(writes'))

WritesExtended == Len(writes') >= Len(writes) /\
                  SubSeq(writes', 1, Len(writes)) = writes

(***************************************************************************)
(* C3: in the paired output modes an exported record whose paired flag is  *)
(* clear is written when it is processed, once, to slot 2, and processing  *)
(* it leaves the mate buffer unchanged; no entry of an unpaired record is  *)
(* ever in mate slot 0 or 1, in the buffer, or written twice.              *)
(***************************************************************************)
C3_UnpairedStep ==
    ( /\ pc = "loop" /\ ThreeSlots
      /\ ~Skipped(read) /\ "BAM_FPAIRED" \notin read.flag )
    => /\ WritesExtended
       /\ Len(NewWrites) = 1
       /\ NewWrites[1].slot = 2
       /\ NewWrites[1].e.text = FormatEntry(read)
       /\ NewWrites[1].e.src.ord = all_seen + 1
       /\ unPaired' = unPaired

C3_UnpairedPlaced ==
    ThreeSlots =>
        /\ \A e \in Written : ~e.src.paired => WrittenOnceTo(e, 2)
        /\ \A e \in Buffered : e.src.paired

C3_UnpairedToFallback == [][C3_UnpairedStep]_vars /\ []C3_UnpairedPlaced

\* an unpaired record was written to slot 2 while a mate waited in the buffer
C3_Witness ==
    /\ ThreeSlots
    /\ Buffered # {}
    /\ \E i \in DOMAIN writes :
          /\ ~writes[i].e.src.paired
          /\ writes[i].slot = 2
          /\ \E b \in Buffered : b.src.ord < writes[i].e.src.ord

(***************************************************************************)
(* C4 as stated: at the end of a run in a paired output mode, an exported  *)
(* paired record whose mate (an exported paired record of the other role   *)
(* with the same pairing key) never appeared has exactly one entry         *)
(* written, in slot 2, and none in a mate slot.                            *)
(***************************************************************************)
C4_Original ==
    (pc = "done" /\ ThreeSlots)
    => \A e \in AllEntries :
          ( /\ e.src.paired
            /\ \A x \in SameKey(e) : x.src.read1 = e.src.read1 )
          => WrittenOnceTo(e, 2)

(***************************************************************************)
(* C4 as amended: in the paired output modes the end-of-stream step writes every      *)
(* entry still in the mate buffer exactly once, to slot 2, after all the   *)
(* writes of the record loop, and nothing else; at the end of the run an   *)
(* exported paired record that is the only one with its pairing key has    *)
(* one entry, in slot 2, and every buffered entry has been written.        *)
(***************************************************************************)
C4_FlushStep ==
    (pc = "eos" /\ ThreeSlots)
    => /\ WritesExtended
       /\ Len(NewWrites) = Cardinality(Buffered)
       /\ \A i \in 1..Len(NewWrites) :
             NewWrites[i].slot = 2 /\ NewWrites[i].e \in Buffered
       /\ \A e \in Buffered : \E i \in 1..Len(NewWrites) : NewWrites[i].e = e
       /\ Buffered \cap Written = {}

C4_OrphansPlaced ==
    (pc = "done" /\ ThreeSlots)
    => /\ \A e \in AllEntries :
             (e.src.paired /\ SameKey(e) = {e}) => WrittenOnceTo(e, 2)
       /\ \A e \in Buffered : WrittenOnceTo(e, 2)

C4_OrphansFlushed == [][C4_FlushStep]_vars /\ []C4_OrphansPlaced

\* a run has ended in which a record without partner was flushed after a
\* matched pair with another key was written
C4_Witness ==
    /\ pc = "done"
    /\ ThreeSlots
    /\ Cardinality(Buffered) = 1
    /\ Len(SlotEntries(0)) = 1
    /\ \A e \in Buffered : /\ WrittenOnceTo(e, 2)
                           /\ SameKey(e) = {e}
                           /\ writes[Len(writes)].e = e

(***************************************************************************)
(* C5: a record is exported exactly when it passes the three inclusion     *)
(* gates: include-aligned when its unmapped bit is clear, include-         *)
(* unaligned when it is set, include-QC-failed when its QC-fail bit is     *)
(* set.  Every record is counted in total-seen; a record that passes is    *)
(* counted in total-exported and gets one new entry (written or buffered); *)
(* a record that fails is not counted in total-exported, is not written    *)
(* and is not buffered.                                                    *)
(***************************************************************************)
PassesGates(b) ==
    /\ "BAM_FUNMAP" \notin b.flag => save_aligned # 0
    /\ "BAM_FUNMAP" \in b.flag => save_unaligned # 0
    /\ "BAM_FQCFAIL" \in b.flag => save_filtered # 0

C5_GateStep ==
    pc = "loop"
    => /\ all_seen' = all_seen + 1
       /\ PassesGates(read) =>
             /\ exported' = exported + 1
             /\ \E e \in (Written \cup Buffered)' :
                   /\ e.src.ord = all_seen + 1
                   /\ e.text = FormatEntry(read)
                   /\ e \notin AllEntries
       /\ ~PassesGates(read) =>
             /\ exported' = exported
             /\ writes' = writes
             /\ unPaired' = unPaired

C5_ExportedIffGates == [][C5_GateStep]_vars

\* a QC-failed record has been dropped when QC-failed records are excluded,
\* after another record was exported
C5_Witness ==
    /\ save_filtered = 0
    /\ save_aligned = 1
    /\ save_unaligned = 1
    /\ all_seen = 2
    /\ exported = 1
    /\ Cardinality(AllEntries) = 1
    /\ \A e \in AllEntries : e.src.ord = 1

\* the name ends in one digit that follows a non-digit, and is 3 long or more
SingleTrailingDigit(name) ==
    /\ Len(name) >= 3
    /\ isdigit(name[Len(name)])
    /\ ~isdigit(name[Len(name) - 1])

C7_MergedStep ==
    OneSlot =>
        /\ pc = "loop" /\ exported' = exported + 1 =>
              /\ WritesExtended
              /\ Len(NewWrites) = 1
              /\ NewWrites[1].slot = 0
              /\ NewWrites[1].e.text = FormatEntry(read)
              /\ NewWrites[1].e.src.ord = all_seen + 1
        /\ pc = "loop" /\ exported' = exported => writes' = writes
        /\ pc = "eos" => writes' = writes

C7_MergedState ==
    OneSlot =>
        /\ DOMAIN unPaired = {}
        /\ Len(writes) = exported
        /\ \A i \in DOMAIN writes : writes[i].slot = 0
        /\ \A i, j \in DOMAIN writes :
              i < j => writes[i].e.src.ord < writes[j].e.src.ord

C7_MergedImmediate == [][C7_MergedStep]_vars /\ []C7_MergedState

\* a one-slot run has ended that exported a paired and an unpaired record,
\* in this order
C7_Witness ==
    /\ OneSlot
    /\ pc = "done"
    /\ all_seen = 2
    /\ Len(writes) = 2
    /\ writes[1].e.src.paired
    /\ ~writes[2].e.src.paired

FilesMode == stdout_pairs = 0 /\ stdout_all = 0

Contains(str, c) == \E i \in DOMAIN str : str[i] = c

\* the output file name: % becomes the lane number, # becomes sfx
FileName(template, lane_, sfx) ==
    LET withLane == IF Contains(template, "%")
                    THEN Replace1(template, Find(template, "%", 0),
                                  IntToStr(lane_))
                    ELSE template
    IN  Replace1(withLane, Find(withLane, "#", 0), sfx)

(***************************************************************************)
(* C8: in paired-to-files mode output initialisation returns no slots      *)
(* exactly when the template contains % and the lane is 0, or the template *)
(* contains no #, or the overwrite flag is clear and the _1 or the _2 file *)
(* exists (the _M file is not looked at).  When it returns no slots no     *)
(* file is created or truncated, no record is counted, buffered or         *)
(* written, and the run has ended: no further step is taken.               *)
(***************************************************************************)
C8_InitStep ==
    (pc = "start" /\ sam' = "open" /\ pc' # "crashed" /\ FilesMode) =>
        LET fail ==
              \/ Contains(output_template, "%") /\ lane' = 0
              \/ ~Contains(output_template, "#")
              \/ /\ overwrite_files = 0
                 /\ \/ FileName(output_template, lane', <<"_", "1">>) \in fs
                    \/ FileName(output_template, lane', <<"_", "2">>) \in fs
        IN  /\ fail <=> output' = <<>>
            /\ output' = <<>> =>
                  /\ fs' = fs
                  /\ opened' = {}
                  /\ all_seen' = 0
                  /\ exported' = 0
                  /\ writes' = <<>>
                  /\ DOMAIN unPaired' = {}
                  /\ pc' = "done"

C8_EndStep == pc = "done" => FALSE

CodeMessages == {"Could not open", "lane could not be determined",
                 "no # in output filename", "paired data", "already exists",
                 "sequences in the BAM file", "sequences exported"}

NewMessages == SubSeq(cerr', Len(cerr) + 1, Len(cerr'))

(***************************************************************************)
(* C9 as amended: at the end of a run in a paired mode the number of       *)
(* entries flushed to the fallback slot equals the size of the mate buffer *)
(* at end of stream, and no unmatched-mate count is reported: the run      *)
(* reports total-seen and total-exported only, and nothing when messages   *)
(* are off.                                                                *)
(***************************************************************************)
C9_FlushStep ==
    (pc = "eos" /\ ThreeSlots) =>
        /\ Len(writes') - Len(writes) = Cardinality(DOMAIN unPaired)
        /\ \A i \in (Len(writes) + 1)..Len(writes') : writes'[i].slot = 2
        /\ Len(cerr') >= Len(cerr)
        /\ NewMessages =
              IF print_msgs # 0
              THEN <<Msg("sequences in the BAM file", all_seen, <<>>),
                     Msg("sequences exported", exported, <<>>)>>
              ELSE <<>>

C10_FatalNonzero ==
    (pc = "done" /\ (sam = "null" \/ output = <<>>)) =>
        /\ writes = <<>>
        /\ opened = {}
        /\ cerr # <<>>
        /\ exit_status # 0

(***************************************************************************)
(* C11: whenever parse_bamfile has returned, on whichever path, everything *)
(* it acquired has been released: the decoder handle is closed, the record *)
(* buffer is freed, and every output stream it opened has been deleted.    *)
(***************************************************************************)
C11_AllReleased ==
    pc = "done" =>
        /\ sam # "open"
        /\ readbuf # "live"
        /\ \A f \in opened : \E i \in DOMAIN deleted : deleted[i].stream = f

\* the letter of a base code, and the letter of the complementary base
Letter(code) ==
    CASE code = 1 -> "A" [] code = 2 -> "C" [] code = 4 -> "G"
      [] code = 8 -> "T" [] code = 15 -> "N"

Complement(ch) ==
    CASE ch = "A" -> "T" [] ch = "T" -> "A" [] ch = "C" -> "G"
      [] ch = "G" -> "C" [] ch = "N" -> "N"

\* the base code of the complementary base
ComplementCode(code) ==
    CHOOSE c \in BaseCodes : Letter(c) = Complement(Letter(code))

\* the stored bases of the reverse complement
RevCompCodes(codes) ==
    [i \in 1..Len(codes) |-> ComplementCode(codes[Len(codes) + 1 - i])]

\* value + 33 as the character that is written (one byte)
Phred33(q) == (q + 33) % 256

(***************************************************************************)
(* C12: for a record over the bases A, C, G, T, N: when it is on the       *)
(* forward strand its sequence is the letters of its base codes in stored  *)
(* order and its quality string is each quality byte plus 33 (as a one-    *)
(* byte character) in stored order; when it is on the reverse strand its   *)
(* sequence is the complement of each base in reversed order and its       *)
(* quality string is each byte plus 33 in reversed order; and the sequence *)
(* of a reverse-strand record equals the sequence of the forward-strand    *)
(* record that stores its reverse complement.                              *)
(***************************************************************************)
C12_Reconstruction ==
    unit_pc = "reconstructed" =>
        LET b == unit_arg
            n == Len(b.seq)
        IN  /\ Len(unit_ret.seq) = n
            /\ Len(unit_ret.qual) = n
            /\ "BAM_FREVERSE" \notin b.flag =>
                  \A i \in 1..n :
                      /\ unit_ret.seq[i] = Letter(b.seq[i])
                      /\ unit_ret.qual[i] = Phred33(b.qual[i])
            /\ "BAM_FREVERSE" \in b.flag =>
                  /\ \A i \in 1..n :
                        /\ unit_ret.seq[i] =
                              Complement(Letter(b.seq[n + 1 - i]))
                        /\ unit_ret.qual[i] = Phred33(b.qual[n + 1 - i])
                  /\ unit_ret.seq =
                        get_sequence([b EXCEPT !.flag = {},
                                               !.seq = RevCompCodes(b.seq)])

\* the reverse-strand record storing A, C was reconstructed as G, T, with
\* its two different qualities swapped
C12_Witness ==
    /\ unit_pc = "reconstructed"
    /\ "BAM_FREVERSE" \in unit_arg.flag
    /\ unit_arg.seq = <<1, 2>>
    /\ unit_arg.qual = <<0, 40>>
    /\ unit_ret.seq = <<"G", "T">>
    /\ unit_ret.qual = <<73, 33>>

(***************************************************************************)
(* C13: in the paired output modes, in every state of the record loop,     *)
(* total-exported equals the number of entries written to slots 0, 1 and 2 *)
(* plus the number of entries in the mate buffer, no buffered entry has    *)
(* been written and no entry has been written twice; after the end-of-     *)
(* stream flush total-exported equals the number of entries written to the *)
(* three slots.                                                            *)
(***************************************************************************)
C13_Conservation ==
    ThreeSlots =>
        /\ \A i \in DOMAIN writes : writes[i].slot \in {0, 1, 2}
        /\ \A i, j \in DOMAIN writes : i # j => writes[i].e # writes[j].e
        /\ pc \in {"loop", "eos"} =>
              /\ exported = Len(writes) + Cardinality(DOMAIN unPaired)
              /\ Buffered \cap Written = {}
        /\ pc = "done" =>
              /\ exported = Len(writes)
              /\ Buffered \subseteq Written

\* a run has ended that exported three records: a matched pair, written to
\* the mate slots, and a third record with the same key, flushed to slot 2
C13_Witness ==
    /\ ThreeSlots
    /\ pc = "done"
    /\ exported = 3
    /\ Len(SlotEntries(0)) = 1
    /\ Len(SlotEntries(1)) = 1
    /\ Len(SlotEntries(2)) = 1
    /\ SlotEntries(2)[1].src.paired
    /\ Key(SlotEntries(2)[1]) = Key(SlotEntries(0)[1])

\* the exported paired records with pairing key k
WithKey(k) == {e \in AllEntries : e.src.paired /\ Key(e) = k}

Odd(n) == n % 2 = 1

(***************************************************************************)
(* C14: in the paired output modes a pairing key is in the mate buffer     *)
(* exactly when an odd number of exported paired records with that key     *)
(* have been processed, and the entry buffered under it is the latest of   *)
(* them.  Processing an exported paired record whose key is absent inserts *)
(* its entry and touches nothing else; processing one whose key is present *)
(* removes that key's entry and touches nothing else; no step changes the  *)
(* entry buffered under a key that stays in the buffer.  So the buffer     *)
(* holds one entry per key with an unmatched record, and no more.          *)
(***************************************************************************)
C14_KeyStep ==
    ThreeSlots =>
        /\ \A k \in DOMAIN unPaired \cap DOMAIN unPaired' :
              unPaired'[k] = unPaired[k]
        /\ ( /\ pc = "loop" /\ ~Skipped(read)
             /\ "BAM_FPAIRED" \in read.flag ) =>
              LET k == pairName(get_pair_name(read), strict)
              IN  IF k \notin DOMAIN unPaired
                  THEN /\ DOMAIN unPaired' = DOMAIN unPaired \cup {k}
                       /\ unPaired'[k].src.ord = all_seen + 1
                       /\ writes' = writes
                  ELSE /\ DOMAIN unPaired' = DOMAIN unPaired \ {k}
                       /\ Len(writes') = Len(writes) + 2

C14_KeyParity ==
    ThreeSlots =>
        /\ \A e \in AllEntries :
              e.src.paired =>
                  (Key(e) \in DOMAIN unPaired
                      <=> Odd(Cardinality(WithKey(Key(e)))))
        /\ \A k \in DOMAIN unPaired :
              /\ unPaired[k] \in WithKey(k)
              /\ \A x \in WithKey(k) : x.src.ord <= unPaired[k].src.ord
        /\ Cardinality(DOMAIN unPaired) =
              Cardinality({Key(e) : e \in {x \in AllEntries :
                  x.src.paired /\ Odd(Cardinality(WithKey(Key(x))))}})

C14_BufferPerKey == [][C14_KeyStep]_vars /\ []C14_KeyParity

\* after a matched pair a third record with the same key is in the buffer,
\* while the records of the pair are not
C14_Witness ==
    /\ ThreeSlots
    /\ pc = "eos"
    /\ all_seen = 3
    /\ Len(SlotEntries(0)) = 1
    /\ Cardinality(DOMAIN unPaired) = 1
    /\ \A k \in DOMAIN unPaired :
          /\ unPaired[k].src.ord = 3
          /\ Cardinality(WithKey(k)) = 3
          /\ SlotEntries(0)[1] \in WithKey(k)

\* the entry the record in the buffer is formatted to
Arriving(e) == e.text = FormatEntry(read) /\ e.src.ord = all_seen + 1

(***************************************************************************)
(* C15: in the paired output modes, when an exported paired record arrives *)
(* whose key is in the mate buffer, the step writes two entries, first to  *)
(* slot 0 and then to slot 1: the arriving entry to slot 0 and the         *)
(* buffered one to slot 1 when the arriving record's read-1 flag is set,   *)
(* the buffered entry to slot 0 and the arriving one to slot 1 when it is  *)
(* clear, whatever the role of the buffered record.  So in every couple    *)
(* written to the mate slots the later record is in slot 0 when its        *)
(* read-1 flag is set and in slot 1 when it is clear, and of two same-role *)
(* records the earlier one is in the slot of the other role.               *)
(***************************************************************************)
C15_MatchStep ==
    ( /\ pc = "loop" /\ ThreeSlots /\ ~Skipped(read)
      /\ "BAM_FPAIRED" \in read.flag
      /\ pairName(get_pair_name(read), strict) \in DOMAIN unPaired )
    => LET held == unPaired[pairName(get_pair_name(read), strict)]
       IN  /\ WritesExtended
           /\ Len(NewWrites) = 2
           /\ NewWrites[1].slot = 0
           /\ NewWrites[2].slot = 1
           /\ IF "BAM_FREAD1" \in read.flag
              THEN Arriving(NewWrites[1].e) /\ NewWrites[2].e = held
              ELSE NewWrites[1].e = held /\ Arriving(NewWrites[2].e)

C15_CouplesByLaterRole ==
    ThreeSlots =>
        \A k \in 1..Len(SlotEntries(0)) :
            k <= Len(SlotEntries(1)) =>
                LET e0 == SlotEntries(0)[k]
                    e1 == SlotEntries(1)[k]
                IN  /\ e0.src.ord > e1.src.ord => e0.src.read1
                    /\ e1.src.ord > e0.src.ord => ~e1.src.read1
                    /\ (e0.src.read1 /\ e1.src.read1) =>
                          e1.src.ord < e0.src.ord
                    /\ (~e0.src.read1 /\ ~e1.src.read1) =>
                          e0.src.ord < e1.src.ord

C15_ArrivingRoleDecides == [][C15_MatchStep]_vars /\ []C15_CouplesByLaterRole

\* two read-1 records with the same key have been matched: the earlier one
\* is in slot 1
C15_Witness ==
    /\ ThreeSlots
    /\ Len(SlotEntries(0)) = 1
    /\ Len(SlotEntries(1)) = 1
    /\ SlotEntries(0)[1].src.read1
    /\ SlotEntries(1)[1].src.read1
    /\ SlotEntries(1)[1].src.ord < SlotEntries(0)[1].src.ord

\* the writes that went to standard output, in the order they were made
CoutWrites ==
    LET ToCout(w) == output[w.slot + 1] = cout
    IN  SelectSeq(writes, ToCout)

PairedStdout == stdout_pairs # 0 /\ ThreeSlots

(***************************************************************************)
(* C16: in paired-to-merged-stream mode the entries on standard output     *)
(* are, after every record, a sequence of couples: the entries 2k-1 and 2k *)
(* were written to slot 0 and to slot 1, by one step, and come from paired *)
(* records with the same pairing key.  A step that matches appends one     *)
(* couple, every other step of the loop and the flush append nothing to    *)
(* standard output: entries of unpaired records and flushed entries are    *)
(* in slot 2, the orphan file, only.                                       *)
(***************************************************************************)
C16_CoupleStep ==
    PairedStdout =>
        LET before == Len(CoutWrites)
            after == Len(CoutWrites')
            matching == /\ pc = "loop" /\ ~Skipped(read)
                        /\ "BAM_FPAIRED" \in read.flag
                        /\ pairName(get_pair_name(read), strict)
                              \in DOMAIN unPaired
        IN  /\ SubSeq(CoutWrites', 1, before) = CoutWrites
            /\ IF matching
               THEN /\ after = before + 2
                    /\ SubSeq(writes', Len(writes) + 1, Len(writes')) =
                          SubSeq(CoutWrites', before + 1, after)
               ELSE after = before

C16_Couples ==
    PairedStdout =>
        /\ Len(CoutWrites) % 2 = 0
        /\ \A k \in 1..(Len(CoutWrites) \div 2) :
              LET w0 == CoutWrites[2 * k - 1]
                  w1 == CoutWrites[2 * k]
              IN  /\ w0.slot = 0 /\ w1.slot = 1
                  /\ w0.e.src.paired /\ w1.e.src.paired
                  /\ Key(w0.e) = Key(w1.e)
        /\ \A i \in DOMAIN writes :
              (~writes[i].e.src.paired \/ writes[i].slot = 2) =>
                  /\ output[writes[i].slot + 1] = UnpairedFile
                  /\ \A j \in DOMAIN CoutWrites :
                        CoutWrites[j].e # writes[i].e
        /\ pc = "done" => \A e \in Buffered : WrittenOnceTo(e, 2)

WithoutMateDigit(name) ==
    IF name # <<>> /\ isdigit(name[Len(name)])
    THEN SubSeq(name, 1, Len(name) - 1)
    ELSE name

\* two raw names that are equal or differ in a trailing digit only
SameFragment(n1, n2) ==
    n1 = n2 \/ WithoutMateDigit(n1) = WithoutMateDigit(n2)

(***************************************************************************)
(* C17: in non-strict mode, in the paired output modes, the two records of *)
(* every couple written to the mate slots have raw names that are equal or *)
(* differ solely in a trailing mate-number digit.                          *)
(***************************************************************************)
C17_MatesShareFragment ==
    (strict = 0 /\ ThreeSlots) =>
        \A k \in 1..Len(SlotEntries(0)) :
            k <= Len(SlotEntries(1)) =>
                SameFragment(SlotEntries(0)[k].src.qname,
                             SlotEntries(1)[k].src.qname)

(***************************************************************************)
(* C18: after a successful initialisation every record the loop counts is  *)
(* one the decoder delivered (the read that filled the buffer succeeded),  *)
(* it is counted in total-seen, and in total-exported exactly when it      *)
(* passes the inclusion gates; at the end of the run total-seen equals the *)
(* number of records the decoder delivered, total-exported does not exceed *)
(* it, and these are the counts reported when messages are on.  This holds *)
(* for the empty stream too, where both counts are 0.                      *)
(***************************************************************************)
C18_CountStep ==
    pc = "loop" =>
        /\ rc > 0
        /\ all_seen' = all_seen + 1
        /\ exported' = exported + 1 <=> PassesGates(read)
        /\ exported' = exported <=> ~PassesGates(read)

C18_CountsAtEnd ==
    (pc = "done" /\ output # <<>>) =>
        /\ all_seen = nread
        /\ exported <= nread
        /\ print_msgs # 0 =>
              /\ Len(cerr) >= 2
              /\ cerr[Len(cerr) - 1] =
                    Msg("sequences in the BAM file", nread, <<>>)
              /\ cerr[Len(cerr)] = Msg("sequences exported", exported, <<>>)

C18_CountsMatchStream == [][C18_CountStep]_vars /\ []C18_CountsAtEnd

\* the streams of the output vector that are not standard output
OwnedStreams ==
    LET Owned(f) == f # cout
    IN  SelectSeq(output, Owned)

(***************************************************************************)
(* C19: every pass over a finite stream ends by returning.  The record     *)
(* loop processes the buffer only after a read that delivered a record; it *)
(* goes on while the next read delivers one and ends at the first result   *)
(* that is not a success, end of file and read error alike.  The step      *)
(* after the loop does the same whichever of the two ended it: it writes   *)
(* every buffered entry to slot 2, releases the decoder, deletes the owned *)
(* streams and reports the two counts; from the end of the loop on no      *)
(* record is counted, exported or read.                                    *)
(***************************************************************************)
C19_LoopStep ==
    pc = "loop" =>
        /\ rc > 0
        /\ rc' > 0 => pc' = "loop" /\ nread' = nread + 1
        /\ rc' <= 0 => pc' = "eos" /\ nread' = nread

C19_EndStep ==
    pc = "eos" =>
        /\ WritesExtended
        /\ Len(NewWrites) = Cardinality(DOMAIN unPaired)
        /\ \A k \in DOMAIN unPaired :
              \E i \in 1..Len(NewWrites) : NewWrites[i] = Write(2, unPaired[k])
        /\ sam' = "closed"
        /\ readbuf' = "freed"
        /\ Len(deleted') = Len(deleted) + Len(OwnedStreams)
        /\ \A i \in 1..Len(OwnedStreams) :
              deleted'[Len(deleted) + i].stream = OwnedStreams[i]
        /\ NewMessages =
              IF print_msgs # 0
              THEN <<Msg("sequences in the BAM file", all_seen, <<>>),
                     Msg("sequences exported", exported, <<>>)>>
              ELSE <<>>
        /\ pc' = "done"

C19_AfterLoop ==
    pc \in {"eos", "done"} =>
        /\ all_seen' = all_seen
        /\ exported' = exported
        /\ nread' = nread
        /\ rc' = rc

C19_EndsAtFirstFailure ==
    /\ [][C19_LoopStep /\ C19_EndStep /\ C19_AfterLoop]_vars
    /\ [](pc = "eos" => rc \in {EndOfFile, ReadError})
    /\ <>(pc = "done")

\* how many times stream f has been deleted
TimesDeleted(f) == Cardinality({i \in DOMAIN deleted : deleted[i].stream = f})

(***************************************************************************)
(* C20: in every output mode, while the run goes on no stream is deleted;  *)
(* when a run that set its output up has completed, every stream of the    *)
(* output vector that is not standard output has been deleted exactly      *)
(* once, standard output has not been deleted, also when slots 0 and 1     *)
(* both are standard output, and every write to a deleted stream was made  *)
(* before the stream was deleted.                                          *)
(***************************************************************************)
C20_StreamsClosedOnce ==
    /\ pc # "done" => deleted = <<>>
    /\ TimesDeleted(cout) = 0
    /\ (pc = "done" /\ output # <<>>) =>
          /\ \A k \in DOMAIN output :
                output[k] # cout => TimesDeleted(output[k]) = 1
          /\ \A i \in DOMAIN deleted :
                /\ \E k \in DOMAIN output : output[k] = deleted[i].stream
                /\ \A j \in DOMAIN writes :
                      output[writes[j].slot + 1] = deleted[i].stream =>
                          j <= deleted[i].after

\* a paired-to-standard-output run has completed: a couple went to standard
\* output through slots 0 and 1, and the orphan file, the one stream
\* deleted, was deleted after both writes
C20_Witness ==
    /\ pc = "done"
    /\ output = <<cout, cout, UnpairedFile>>
    /\ Len(SlotEntries(0)) = 1
    /\ Len(SlotEntries(1)) = 1
    /\ Len(deleted) = 1
    /\ deleted[1] = [stream |-> UnpairedFile, after |-> 2]

====
